---- MODULE Spec2Model ----
(***************************************************************************)
(* A model of the news pipeline of nijirow12/reactapp:                     *)
(*   - the trending route in its two variants (src/unnamed/part_002, the   *)
(*     scoring variant, and src/unnamed/part_003, the plain variant);      *)
(*   - the de-duplication loop of the summarize routes                     *)
(*     (src/src/app/api/summarize/route.ts, src/unnamed/part_000).         *)
(*                                                                         *)
(* JavaScript strings are sequences of one-character strings, so that      *)
(* trim(), toLowerCase(), split() and includes() are computed, not assumed.*)
(* A JSON value read from an external payload is a record [k, s]: k is     *)
(* "null" (absent, undefined or null), "num" (a non-string value, the      *)
(* number 5) or "str" (the string s).                                      *)
(***************************************************************************)
EXTENDS Integers, Sequences, FiniteSets, TLC

(***************************************************************************)
(* Bounds of the model.                                                    *)
(***************************************************************************)
\* Longest raw article sequence given to the de-duplication operators.
MaxLen == 3

(***************************************************************************)
(* Strings.                                                                *)
(***************************************************************************)
\* The characters the model's strings are written with, in code-unit order.
Ascii ==
  << " ", "!", "0", "1", "2", "3", "4", "5", "6", "7", "8", "9", ":", "A", "B", "E", "I", "L", "O", "P", "S", "U",
     "a", "b", "c", "e", "i", "l", "o", "p", "r", "s", "t", "u", "y" >>

Code(c) == CHOOSE i \in 1..Len(Ascii) : Ascii[i] = c

\* String.prototype.toLowerCase, one character.
ToLowerChar(c) ==
  CASE c = "A" -> "a" [] c = "B" -> "b" [] c = "E" -> "e" [] c = "I" -> "i"
    [] c = "L" -> "l" [] c = "O" -> "o" [] c = "P" -> "p" [] c = "S" -> "s"
    [] c = "U" -> "u" [] OTHER -> c

ToLower(s) == [i \in 1..Len(s) |-> ToLowerChar(s[i])]

IsSpace(c) == c = " "

RECURSIVE TrimLeft(_)
TrimLeft(s) ==
  IF s = <<>> THEN <<>>
  ELSE IF IsSpace(Head(s)) THEN TrimLeft(Tail(s)) ELSE s

RECURSIVE TrimRight(_)
TrimRight(s) ==
  IF s = <<>> THEN <<>>
  ELSE IF IsSpace(s[Len(s)]) THEN TrimRight(SubSeq(s, 1, Len(s) - 1)) ELSE s

\* String.prototype.trim
Trim(s) == TrimRight(TrimLeft(s))

\* The character class [A-Za-z0-9...] of the fallback's split(), on Ascii.
IsAlnum(c) == c \notin {" ", "!", ":"}

\* String.prototype.includes
Includes(hay, needle) ==
  \E i \in 1..(Len(hay) - Len(needle) + 1) :
    SubSeq(hay, i, i + Len(needle) - 1) = needle

\* The < of two strings: by code units, a proper prefix first.
RECURSIVE StrLess(_, _)
StrLess(a, b) ==
  IF b = <<>> THEN FALSE
  ELSE IF a = <<>> THEN TRUE
  ELSE IF Head(a) = Head(b) THEN StrLess(Tail(a), Tail(b))
  ELSE Code(Head(a)) < Code(Head(b))

(***************************************************************************)
(* Loops over lists.                                                       *)
(***************************************************************************)
\* for (const x of s) st = Step(st, x), over s[lo..hi]: the halves one after
\* the other. The test left = left, true of every value, has the left half
\* computed before the right half is entered, which keeps the evaluation of
\* a long list shallow.
RECURSIVE FoldRange(_, _, _, _, _)
FoldRange(Step(_, _), s, lo, hi, st) ==
  IF lo > hi THEN st
  ELSE IF lo = hi THEN Step(st, s[lo])
  ELSE LET mid == (lo + hi) \div 2
           left == FoldRange(Step, s, lo, mid, st)
       IN IF left = left THEN FoldRange(Step, s, mid + 1, hi, left) ELSE st

FoldSeq(Step(_, _), s, st) == FoldRange(Step, s, 1, Len(s), st)

\* The list with x put in front of position p.
InsertAt(list, p, x) ==
  SubSeq(list, 1, p - 1) \o << x >> \o SubSeq(list, p, Len(list))

\* The least member of a set of positions, n when there is none.
FirstOf(P, n) == IF P = {} THEN n ELSE CHOOSE i \in P : \A j \in P : i <= j

(***************************************************************************)
(* JSON values of an external payload.                                     *)
(***************************************************************************)
JsNull == [k |-> "null", s |-> <<>>]
JsNum == [k |-> "num", s |-> <<>>]
Str(s) == [k |-> "str", s |-> s]

\* v ?? ""
Coalesce(v) == IF v.k = "null" THEN Str(<<>>) ELSE v

\* ToBoolean(v): the number 5 is truthy, "" and null are not.
Truthy(v) == v.k = "num" \/ (v.k = "str" /\ v.s # <<>>)

\* a || b
OrElse(a, b) == IF Truthy(a) THEN a ELSE b

\* A raw record of the search API's articles list; nul: the entry is null.
RawRec(t, u) ==
  [nul |-> FALSE, title |-> t, url |-> u, source |-> JsNull,
   publishedAt |-> JsNull, description |-> JsNull]

NullRec ==
  [nul |-> TRUE, title |-> JsNull, url |-> JsNull, source |-> JsNull,
   publishedAt |-> JsNull, description |-> JsNull]

(***************************************************************************)
(* The summarize routes: normalisation and the de-duplication loop.        *)
(***************************************************************************)
\* rawArticles.map((a) => ({ title: a?.title ?? "", ... })): one article per
\* raw entry; a null entry gives empty strings, a non-string value is kept.
SumNormalizeOne(r) ==
  [title |-> Coalesce(r.title), description |-> Coalesce(r.description),
   url |-> Coalesce(r.url), source |-> Coalesce(r.source),
   publishedAt |-> Coalesce(r.publishedAt)]

SumNormalize(raw) == [i \in 1..Len(raw) |-> SumNormalizeOne(raw[i])]

\* item.title || item.url, the value .trim() is called on.
KeyBase(item) == OrElse(item.title, item.url)

\* A flaw of the kind the key could have: the case is not folded.
DedupKeyCaseSensitive(item) == Trim(KeyBase(item).s)

\* (item.title || item.url).trim().toLowerCase()
DedupKey(item) == ToLower(Trim(KeyBase(item).s))

\* A flaw of the kind the loop could have: deduped.unshift(item), which
\* returns the retained articles in reverse order.
RECURSIVE DedupLoopUnshift(_, _, _)
DedupLoopUnshift(items, seen, out) ==
  IF items = <<>> THEN [err |-> FALSE, out |-> out]
  ELSE LET item == Head(items) IN
    IF KeyBase(item).k # "str" THEN [err |-> TRUE, out |-> <<>>]
    ELSE LET key == DedupKey(item) IN
      IF key = <<>> \/ key \in seen THEN DedupLoopUnshift(Tail(items), seen, out)
      ELSE DedupLoopUnshift(Tail(items), seen \cup {key}, << item >> \o out)

\* A flaw of the kind the loop could have: an article whose key was seen
\* replaces the retained article with that key, so the last one is kept.
RECURSIVE DedupLoopLastWins(_, _, _)
DedupLoopLastWins(items, seen, out) ==
  IF items = <<>> THEN [err |-> FALSE, out |-> out]
  ELSE LET item == Head(items) IN
    IF KeyBase(item).k # "str" THEN [err |-> TRUE, out |-> <<>>]
    ELSE LET key == DedupKey(item) IN
      IF key = <<>> THEN DedupLoopLastWins(Tail(items), seen, out)
      ELSE DedupLoopLastWins(Tail(items), seen \cup {key},
             Append(SelectSeq(out, LAMBDA o : DedupKey(o) # key), item))

\* The loop over normalized; err: .trim() was called on a value that is no
\* string (a TypeError, which leaves the loop).
RECURSIVE DedupLoop(_, _, _)
DedupLoop(items, seen, out) ==
  IF items = <<>> THEN [err |-> FALSE, out |-> out]
  ELSE LET item == Head(items) IN
    IF KeyBase(item).k # "str" THEN [err |-> TRUE, out |-> <<>>]
    ELSE LET key == DedupKey(item) IN
      IF key = <<>> \/ key \in seen THEN DedupLoop(Tail(items), seen, out)
      ELSE DedupLoop(Tail(items), seen \cup {key}, Append(out, item))

Dedup(items) == DedupLoop(items, {}, <<>>)

(***************************************************************************)
(* The trending routes: normalize().                                       *)
(***************************************************************************)
ColonColon == << ":", ":" >>

\* (title + "::" + url).toLowerCase()
NormalizeKey(title, url) == ToLower(title \o ColonColon \o url)

\* One turn of normalize()'s loop; err: a property of a null entry was read
\* or .trim() was called on a value that is no string, which leaves the loop.
NormalizeStep(st, r) ==
  IF st.err THEN st
  ELSE IF r.nul THEN [st EXCEPT !.err = TRUE, !.out = <<>>]
  ELSE IF Coalesce(r.title).k # "str" \/ Coalesce(r.url).k # "str"
  THEN [st EXCEPT !.err = TRUE, !.out = <<>>]
  ELSE LET title == Trim(Coalesce(r.title).s)
           url == Trim(Coalesce(r.url).s)
           key == NormalizeKey(title, url)
       IN
    IF title = <<>> \/ url = <<>> THEN st
    ELSE IF key \in st.seen THEN st
    ELSE IF \/ Coalesce(r.description).k # "str"
            \/ Coalesce(r.source).k # "str"
            \/ Coalesce(r.publishedAt).k # "str"
    THEN [st EXCEPT !.err = TRUE, !.out = <<>>]
    ELSE [err |-> FALSE,
          seen |-> st.seen \cup {key},
          out |-> Append(st.out,
                    [index |-> Len(st.out) + 1,
                     title |-> title,
                     description |-> Trim(Coalesce(r.description).s),
                     url |-> url,
                     source |-> Trim(Coalesce(r.source).s),
                     publishedAt |-> Trim(Coalesce(r.publishedAt).s)])]

\* normalize(raw), from the given seen and out.
NormalizeLoop(raw, seen, out) ==
  LET st == FoldSeq(NormalizeStep, raw, [err |-> FALSE, seen |-> seen, out |-> out])
  IN [err |-> st.err, out |-> st.out]

Normalize(raw) == NormalizeLoop(raw, {}, <<>>)


(***************************************************************************)
(* The trending routes: request parameters.                                *)
(***************************************************************************)
\* A field of the request body: absent or null, a number, a string that
\* reads as a number ("7"), or any other string ("abc").
PNull == [k |-> "null", n |-> 0]
PNum(n) == [k |-> "num", n |-> n]
PNumStr(n) == [k |-> "numstr", n |-> n]
PStr == [k |-> "str", n |-> 0]

\* A JavaScript number: an integer or NaN.
NaN == [nan |-> TRUE, n |-> 0]
Num(n) == [nan |-> FALSE, n |-> n]

DaysDefault == 3
DaysMax == 30
PagesDefault == 2
PagesMax == 5
PageSizeDefault == 50
PageSizeMax == 100
ParamMin == 1

\* v ?? d
OrDefault(v, d) == IF v.k = "null" THEN PNum(d) ELSE v

\* Number(v)
ToNumber(v) == IF v.k \in {"num", "numstr"} THEN Num(v.n) ELSE NaN

\* Math.max and Math.min: NaN when an argument is NaN.
MathMax(a, b) ==
  IF a.nan \/ b.nan THEN NaN ELSE IF a.n >= b.n THEN a ELSE b

MathMin(a, b) ==
  IF a.nan \/ b.nan THEN NaN ELSE IF a.n <= b.n THEN a ELSE b

\* Math.min(Math.max(Number(v ?? d), 1), hi)
ClampParam(v, d, hi) ==
  MathMin(MathMax(ToNumber(OrDefault(v, d)), Num(ParamMin)), Num(hi))

\* The (sortBy, page) matrix of the fan-out, in the order the promises are
\* pushed; p <= NaN is false, so NaN pages push nothing.
FetchKeys(pages) ==
  IF pages.nan THEN <<>>
  ELSE [i \in 1..(2 * pages.n) |->
         IF i <= pages.n
         THEN [sortBy |-> "publishedAt", page |-> i]
         ELSE [sortBy |-> "popularity", page |-> i - pages.n]]

(***************************************************************************)
(* The trending routes: ordering, scoring, truncation.                     *)
(***************************************************************************)
PermsOf(s) ==
  { [i \in 1..Len(s) |-> s[p[i]]] : p \in Permutations(1..Len(s)) }

\* normalized.sort((a, b) => (a.publishedAt < b.publishedAt ? 1 : -1)): the
\* comparator never answers 0, so the order of articles with equal
\* publishedAt is the engine's choice; the result is some arrangement with
\* no article before one published later.
IsPublishedDesc(s) ==
  \A i, j \in 1..Len(s) :
    i < j => ~StrLess(s[i].publishedAt, s[j].publishedAt)

\* The one arrangement when no two articles share their publishedAt.
InsertPublished(sorted, x) ==
  InsertAt(sorted,
           FirstOf({ i \in 1..Len(sorted) :
                       StrLess(sorted[i].publishedAt, x.publishedAt) },
                   Len(sorted) + 1),
           x)

SortPublished(s) == FoldSeq(InsertPublished, s, <<>>)

SortsByPublished(s) ==
  IF \A i, j \in 1..Len(s) : i # j => s[i].publishedAt # s[j].publishedAt
  THEN { SortPublished(s) }
  ELSE { t \in PermsOf(s) : IsPublishedDesc(t) }

\* Date.parse(a.publishedAt || '') || now, as the age in hours: the model's
\* publishedAt strings stand for ISO timestamps, "1" 36 hours and "2" 12
\* hours before now, "3" 12 hours and "4" 24 hours after now; any other
\* string does not parse and gives age 0.
PubAgeHours(pub) ==
  CASE pub = << "1" >> -> 36 [] pub = << "2" >> -> 12
    [] pub = << "3" >> -> -12 [] pub = << "4" >> -> -24 [] OTHER -> 0

\* recency = 1 / (1 + ageHours / 12), as the fraction num/den; 1/0 is
\* Infinity.
Recency(age) ==
  IF 12 + age = 0 THEN [k |-> "inf", num |-> 1, den |-> 0]
  ELSE [k |-> "num", num |-> 12, den |-> 12 + age]

\* The entries of TREND_KEYWORDS that can be written with Ascii.
TrendKeywords ==
  { << "a", "i" >>, << "s", "a", "l", "e" >>, << "e", "c", "o" >>,
    << "s", "u", "p", "p", "l", "y" >>, << "p", "r", "i", "c", "e" >>,
    << "c", "o", "s", "t", "c", "o" >> }

\* new RegExp(`\\b${k}\\b`, 'i').test(text)
WordMatch(k, text) ==
  \E i \in 1..(Len(text) - Len(k) + 1) :
    /\ SubSeq(text, i, i + Len(k) - 1) = k
    /\ (i = 1 \/ ~IsAlnum(text[i - 1]))
    /\ (i + Len(k) - 1 = Len(text) \/ ~IsAlnum(text[i + Len(k)]))

KwHits(a) ==
  LET text == ToLower(a.title \o << " " >> \o a.description)
  IN Cardinality({ k \in TrendKeywords : WordMatch(k, text) })

Unknown == << "u", "n", "k", "n", "o", "w", "n" >>

\* srcFreq: counted under a.source || 'unknown'
SrcFreqKey(a) == IF a.source = <<>> THEN Unknown ELSE a.source

\* srcFreq[key]; 0 stands for undefined.
SrcFreq(arts, key) ==
  Cardinality({ i \in 1..Len(arts) : SrcFreqKey(arts[i]) = key })

MaxOf(S) == CHOOSE x \in S : \A y \in S : y <= x

\* Math.max(1, ...Object.values(srcFreq))
MaxSrcFreq(arts) ==
  MaxOf({1} \cup { SrcFreq(arts, SrcFreqKey(arts[i])) : i \in 1..Len(arts) })

\* Number.prototype.toFixed: to the nearest, a tie away from zero.
RoundDiv(n, d) ==
  IF n >= 0 THEN (2 * n + d) \div (2 * d)
  ELSE -((2 * (-n) + d) \div (2 * d))

LengthQuality100(a) ==
  LET descLen == Len(a.description)
  IN IF descLen > 300 THEN 25
     ELSE IF descLen > 120 THEN 15
     ELSE IF descLen > 60 THEN 5 ELSE 0

Penalty100(a) == IF Len(a.title) < 25 THEN 10 ELSE 0

Min(x, y) == IF x <= y THEN x ELSE y

\* The score of article a of the batch arts, in units of 0.0001:
\* recency 12/(12+age), keywordBoost 0.15 a hit up to 6, crossSource
\* 0.6*srcFreq[a.source]/maxSrcFreq, lengthQuality, penalty. srcFreq is read
\* under a.source, not under a.source || 'unknown': undefined / max is NaN.
\* k: "nan", "inf" (age -12 hours: 1/0) or "num" with the value v.
ScoreOf(a, arts) ==
  LET age == PubAgeHours(a.publishedAt)
      f == SrcFreq(arts, a.source)
      m == MaxSrcFreq(arts)
      rest == 1500 * Min(KwHits(a), 6) + 100 * LengthQuality100(a)
                - 100 * Penalty100(a)
      d == (12 + age) * m
      n == 120000 * m + rest * d + 6000 * f * (12 + age)
  IN IF f = 0 THEN [k |-> "nan", v |-> 0]
     ELSE IF 12 + age = 0 THEN [k |-> "inf", v |-> 0]
     ELSE IF d > 0 THEN [k |-> "num", v |-> RoundDiv(n, d)]
     ELSE [k |-> "num", v |-> RoundDiv(-n, -d)]

\* scoreArticles(articles): the same articles, each with its score; ageHours
\* and recency record the callback's locals of those names.
ScoreArticles(arts) ==
  [i \in 1..Len(arts) |->
    [index |-> arts[i].index, title |-> arts[i].title,
     description |-> arts[i].description, url |-> arts[i].url,
     source |-> arts[i].source, publishedAt |-> arts[i].publishedAt,
     score |-> ScoreOf(arts[i], arts),
     ageHours |-> PubAgeHours(arts[i].publishedAt),
     recency |-> Recency(PubAgeHours(arts[i].publishedAt))]]

\* b.score - a.score < 0: a goes before b.
ScoreAbove(a, b) ==
  /\ a.score.k # "nan" /\ b.score.k # "nan"
  /\ \/ a.score.k = "inf" /\ b.score.k = "num"
     \/ a.score.k = "num" /\ b.score.k = "num" /\ a.score.v > b.score.v

\* Array.prototype.sort is stable: insertion in front of the first element
\* that x is above.
InsertDesc(sorted, x) ==
  InsertAt(sorted,
           FirstOf({ i \in 1..Len(sorted) : ScoreAbove(x, sorted[i]) },
                   Len(sorted) + 1),
           x)

StableSortDesc(s) == FoldSeq(InsertDesc, s, <<>>)

\* scored.sort((a, b) => b.score - a.score): with a NaN score the comparator
\* is inconsistent and the order is the engine's choice.
SortsByScore(s) ==
  IF \E i \in 1..Len(s) : s[i].score.k = "nan"
  THEN PermsOf(s)
  ELSE { StableSortDesc(s) }

ClusterCapScored == 100
ClusterCapPlain == 80

Take(s, n) == SubSeq(s, 1, Min(n, Len(s)))

\* clusterTargetRaw.map((a, i) => ({ title, ..., index: i + 1 })): the index
\* is assigned anew and the score is not copied.
Reindex(s) ==
  [i \in 1..Len(s) |->
    [index |-> i, title |-> s[i].title, description |-> s[i].description,
     url |-> s[i].url, source |-> s[i].source,
     publishedAt |-> s[i].publishedAt]]

\* The plain variant: normalized.slice(0, 80); each article keeps the index
\* normalize() gave it before the sort.
SliceOnly(s) == Take(s, ClusterCapPlain)

\* A line of the cluster prompt: `${a.index}. [score=${score ?? 'N/A'}] ...`;
\* hasScore: the article given to buildClusterPrompt has a score property.
PromptLine(a) ==
  [index |-> a.index, title |-> a.title,
   hasScore |-> "score" \in DOMAIN a]

\* buildClusterPrompt(articles): one line per article, in list order.
BuildClusterPrompt(arts) == [i \in 1..Len(arts) |-> PromptLine(arts[i])]

(***************************************************************************)
(* The trending routes: the model's text and the fallback.                 *)
(***************************************************************************)
\* The model's text is a sequence of segments: "prose" (characters other
\* than braces and blanks: commentary, a code fence), "ws" (blanks, a line
\* break), "lbrace" and "rbrace" (a lone brace) and "obj" (one well-formed
\* JSON object, whose trendingTopics member is the payload).
IsOpen(seg) == seg \in {"obj", "lbrace"}
IsClose(seg) == seg \in {"obj", "rbrace"}

\* raw.match(/\{[\s\S]*\}$/): from the first "{" to the end, when the text
\* ends with "}" and that "}" has a "{" before it.
RegexMatches(text) ==
  /\ text # <<>>
  /\ IsClose(text[Len(text)])
  /\ \/ text[Len(text)] = "obj"
     \/ \E i \in 1..(Len(text) - 1) : IsOpen(text[i])

FirstOpen(text) == CHOOSE i \in 1..Len(text) :
  IsOpen(text[i]) /\ \A j \in 1..(i - 1) : ~IsOpen(text[j])

MatchedText(text) ==
  IF RegexMatches(text) THEN SubSeq(text, FirstOpen(text), Len(text)) ELSE text

\* JSON.parse(txt) gives the object: txt is one object between blanks.
ParsesAsObject(txt) == SelectSeq(txt, LAMBDA seg : seg # "ws") = << "obj" >>

\* parseClusterJson(raw).trendingTopics; payload: the object's
\* trendingTopics member, arr when it is an array, topics its entries.
ParseClusterJson(text, payload) ==
  IF ParsesAsObject(MatchedText(text)) /\ payload.arr
  THEN payload.topics ELSE <<>>

RECURSIVE SplitAcc(_, _, _)
SplitAcc(s, cur, acc) ==
  LET flushed == IF cur = <<>> THEN acc ELSE Append(acc, cur) IN
  IF s = <<>> THEN flushed
  ELSE IF IsAlnum(Head(s)) THEN SplitAcc(Tail(s), Append(cur, Head(s)), acc)
  ELSE SplitAcc(Tail(s), <<>>, flushed)

\* title.split(/[^A-Za-z0-9...]+/).filter(Boolean)
SplitWords(s) == SplitAcc(s, <<>>, <<>>)

\* Every word of every title, lower-cased, in reading order.
TitleWords(acc, a) ==
  LET ws == SplitWords(a.title)
  IN acc \o [i \in 1..Len(ws) |-> ToLower(ws[i])]

AllWords(arts) == FoldSeq(TitleWords, arts, <<>>)

CountIn(ws, w) == Cardinality({ i \in 1..Len(ws) : ws[i] = w })

\* Object.entries(freq): the distinct words in the order of their first
\* occurrence (no title of the model has a word of digits only, which
\* Object.entries would list first), each with its count.
FreqEntries(ws, all, acc) ==
  LET Entry(list, w) ==
        IF \E i \in 1..Len(list) : list[i].word = w THEN list
        ELSE Append(list, [word |-> w, n |-> CountIn(all, w)])
  IN FoldSeq(Entry, ws, acc)

\* .sort((a, b) => b[1] - a[1]), stable.
InsertByCount(sorted, x) ==
  InsertAt(sorted,
           FirstOf({ i \in 1..Len(sorted) : x.n > sorted[i].n },
                   Len(sorted) + 1),
           x)

SortByCount(s) == FoldSeq(InsertByCount, s, <<>>)

WordMinLen == 2
FallbackTopics == 3
FallbackArticles == 5
FallbackCitations == 2

\* The articles whose lower-cased title includes the word.
TitleMatches(arts, word) ==
  SelectSeq(arts, LAMBDA a : Includes(ToLower(a.title), word))

\* `${a.title}. ${a.source}. ${a.publishedAt?.slice(0, 10)}. ${a.url}`
Citation(a) ==
  [title |-> a.title, source |-> a.source,
   date |-> Take(a.publishedAt, 10), url |-> a.url]

FallbackTopic(arts, word) ==
  LET hit == TitleMatches(arts, word)
      cited == Take(hit, FallbackCitations)
      listed == Take(hit, FallbackArticles)
  IN [topic |-> word,
      articles |-> [i \in 1..Len(listed) |-> listed[i].index],
      citations |-> [i \in 1..Len(cited) |-> Citation(cited[i])]]

\* Object.entries(freq).filter(([k]) => k.length > 2).sort(...).slice(0, 3)
TopWords(arts) ==
  LET ws == AllWords(arts)
      long == SelectSeq(FreqEntries(ws, ws, <<>>),
                        LAMBDA e : Len(e.word) > WordMinLen)
  IN Take(SortByCount(long), FallbackTopics)

\* The fallback's topics over clusterTarget.
Fallback(arts) ==
  LET top == TopWords(arts)
  IN [i \in 1..Len(top) |-> FallbackTopic(arts, top[i].word)]

(***************************************************************************)
(* State.                                                                  *)
(***************************************************************************)
VARIABLES
  dIn,      \* the raw article list given to a de-duplicator
  dOut,     \* its result: [err, out]
  dPhase,   \* "input", then "deduped" (summarize) or "normalized" (trending),
            \* then "again" once the same de-duplicator ran on its output
  dAgain,   \* the result of that second run: [err, out]
  dK,       \* summarize: the effective pageSize
  dPrefer,  \* summarize: preferDiverseSources
  dSel,     \* summarize: articles, the selected list
  variant,  \* "scored" (part_002) or "plain" (part_003)
  body,     \* the request body: [nul, days, pages, pageSize]
  env,      \* process.env: [news, openai], whether each key is set
  pc,       \* where POST stands: start, fetching, model, done
  days, pages, pageSize,   \* the effective parameters
  fetches,  \* the fan-out: one [sortBy, page, st, list] per promise
  mergedRaw,      \* rawBatches.flat()
  scored,         \* clusterSource: the scored list, ranked (scored variant)
  clusterTarget,  \* the articles sent to the model
  prompt,         \* the article lines of the prompt
  aiText, aiPayload,   \* the model's text and the object it holds
  aiFailed,       \* openai.responses.create rejected
  usedFallback,   \* the fallback branch was taken
  resp,     \* the response
  sBody,    \* summarize: the request body, [kind, query]
  sEnv,     \* summarize: process.env, [news, openai], "" when a key is unset
  sPc,      \* summarize: where POST stands: start, searching, pages, done
  sCalls,   \* summarize: the external calls issued, each [to, key]
  sArticles,   \* summarize: articles, each with what its page fetch gave
  sHist,    \* summarize: what the external services answered, in order
  sRun,     \* summarize: 1, or 2 for the same request under other keys
  sPrev,    \* summarize: the response and the answers of run 1
  sResp     \* summarize: the response

svars == << sBody, sEnv, sPc, sCalls, sArticles, sHist, sRun, sPrev, sResp >>

dvars == << dIn, dOut, dPhase, dAgain, dK, dPrefer, dSel >>

tvars ==
  << variant, body, env, pc, days, pages, pageSize, fetches, mergedRaw,
     scored, clusterTarget, prompt, aiText, aiPayload, aiFailed, usedFallback, resp >>

vars == << dvars, tvars, svars >>

(***************************************************************************)
(* The trending routes: the request as a state machine.                    *)
(***************************************************************************)
NoBody == [nul |-> FALSE, days |-> PNull, pages |-> PNull, pageSize |-> PNull]
NoPayload == [arr |-> FALSE, topics |-> <<>>]

NoResp ==
  [status |-> 0, error |-> "", details |-> "", totalFetched |-> 0,
   articlesUsedForClustering |-> 0, trendingTopics |-> <<>>,
   clusteredArticles |-> <<>>, scoredArticles |-> <<>>]

\* No request is running.
TrendIdle ==
  /\ variant = "scored"
  /\ body = NoBody
  /\ env = [news |-> TRUE, openai |-> TRUE]
  /\ pc = "idle"
  /\ days = NaN /\ pages = NaN /\ pageSize = NaN
  /\ fetches = <<>>
  /\ mergedRaw = <<>>
  /\ scored = <<>>
  /\ clusterTarget = <<>>
  /\ prompt = <<>>
  /\ aiText = <<>> /\ aiPayload = NoPayload
  /\ aiFailed = FALSE
  /\ usedFallback = FALSE
  /\ resp = NoResp

SumNoResp ==
  [status |-> 0, error |-> "", details |-> "", summary |-> "", articles |-> <<>>]

\* No summarize request is running.
SumIdle ==
  /\ sBody = [kind |-> "obj", query |-> JsNull]
  /\ sEnv = [news |-> "", openai |-> ""]
  /\ sPc = "idle"
  /\ sCalls = <<>>
  /\ sArticles = <<>>
  /\ sHist = <<>>
  /\ sRun = 1
  /\ sPrev = [resp |-> SumNoResp, hist |-> <<>>]
  /\ sResp = SumNoResp

\* Nothing was selected, no second run was made.
SelectIdle ==
  /\ dAgain = [err |-> FALSE, out |-> <<>>]
  /\ dK = NaN
  /\ dPrefer = FALSE
  /\ dSel = <<>>

DedupIdle ==
  /\ dIn = <<>>
  /\ dOut = [err |-> FALSE, out |-> <<>>]
  /\ dPhase = "idle"
  /\ SelectIdle

(***************************************************************************)
(* The de-duplicators as functions of their input.                         *)
(***************************************************************************)
DedupTitles ==
  { JsNum, Str(<<>>), Str(<< " " >>), Str(<< "A" >>), Str(<< "a", " " >>) }

DedupUrls == { Str(<<>>), Str(<< "a" >>), Str(<< "U" >>) }

DedupRecs == { RawRec(t, u) : t \in DedupTitles, u \in DedupUrls } \cup { NullRec }

SeqsUpTo(S, n) == UNION { [1..k -> S] : k \in 0..n }

NoResult == [err |-> FALSE, out |-> <<>>]

InitDedup ==
  /\ dIn \in SeqsUpTo(DedupRecs, MaxLen)
  /\ dOut = NoResult
  /\ dPhase = "input"
  /\ SelectIdle
  /\ TrendIdle
  /\ SumIdle

\* The summarize route from rawArticles to deduped.
RunDedup ==
  /\ dPhase = "input"
  /\ dOut' = Dedup(SumNormalize(dIn))
  /\ dPhase' = "deduped"
  /\ UNCHANGED << dIn, dAgain, dK, dPrefer, dSel, tvars, svars >>

\* The trending route's normalize(mergedRaw).
RunNormalize ==
  /\ dPhase = "input"
  /\ dOut' = Normalize(dIn)
  /\ dPhase' = "normalized"
  /\ UNCHANGED << dIn, dAgain, dK, dPrefer, dSel, tvars, svars >>

\* An Article of normalize() in the shape normalize() reads: the strings as
\* they are, the source string as the name of the source object.
AsRaw(a) ==
  [nul |-> FALSE, title |-> Str(a.title), url |-> Str(a.url),
   source |-> Str(a.source), publishedAt |-> Str(a.publishedAt),
   description |-> Str(a.description)]

\* The summarize loop once more, over deduped.
RunDedupAgain ==
  /\ dPhase = "deduped"
  /\ ~dOut.err
  /\ dAgain' = Dedup(dOut.out)
  /\ dPhase' = "again"
  /\ UNCHANGED << dIn, dOut, dK, dPrefer, dSel, tvars, svars >>

\* normalize() once more, over the articles it returned.
RunNormalizeAgain ==
  /\ dPhase = "normalized"
  /\ ~dOut.err
  /\ dAgain' = Normalize([i \in 1..Len(dOut.out) |-> AsRaw(dOut.out[i])])
  /\ dPhase' = "again"
  /\ UNCHANGED << dIn, dOut, dK, dPrefer, dSel, tvars, svars >>

NextDedup == RunDedup \/ RunNormalize \/ RunDedupAgain \/ RunNormalizeAgain

SpecDedup == InitDedup /\ [][NextDedup]_vars

(***************************************************************************)
(* The summarize routes: the selection of the articles to summarise.       *)
(***************************************************************************)
SumPageSizeDefault == 10
SumPageSizeMax == 50

\* The sources held by a list of articles, as Map keys.
SourcesOf(arts) == { arts[i].source : i \in 1..Len(arts) }

\* A flaw of the kind the selection could have: the first pass stops at the
\* first pageSize articles whatever their sources.
BySourceLoopFirstK(rest, vals, k) ==
  IF k.nan THEN rest ELSE SubSeq(rest, 1, IF k.n <= Len(rest) THEN k.n ELSE Len(rest))

\* for (const a of deduped) { if (!bySource.has(a.source)) bySource.set(...);
\* if (bySource.size >= pageSize) break; }: the Map's values in insertion
\* order. A NaN pageSize never breaks.
RECURSIVE BySourceLoop(_, _, _)
BySourceLoop(rest, vals, k) ==
  IF rest = <<>> THEN vals
  ELSE LET a == Head(rest)
           nv == IF a.source \in SourcesOf(vals) THEN vals ELSE Append(vals, a)
       IN IF ~k.nan /\ Len(nv) >= k.n THEN nv
          ELSE BySourceLoop(Tail(rest), nv, k)

\* picked.includes(a)
InList(list, a) == \E i \in 1..Len(list) : list[i] = a

\* A flaw of the kind the selection could have: no backfill.
BackfillLoopNone(rest, picked, k) == picked

\* for (const a of deduped) { if (picked.length >= pageSize) break;
\* if (!picked.includes(a)) picked.push(a); }
RECURSIVE BackfillLoop(_, _, _)
BackfillLoop(rest, picked, k) ==
  IF rest = <<>> THEN picked
  ELSE IF ~k.nan /\ Len(picked) >= k.n THEN picked
  ELSE LET a == Head(rest) IN
    BackfillLoop(Tail(rest), IF InList(picked, a) THEN picked ELSE Append(picked, a), k)

\* list.slice(0, pageSize); a NaN end is 0.
SliceTo(list, k) ==
  IF k.nan THEN <<>>
  ELSE SubSeq(list, 1, IF k.n <= Len(list) THEN k.n ELSE Len(list))

\* The branch on preferDiverseSources, from deduped to articles.
SelectArticles(deduped, prefer, k) ==
  IF prefer
  THEN LET first == BySourceLoop(deduped, <<>>, k)
           picked == IF ~k.nan /\ Len(first) < k.n
                     THEN BackfillLoop(deduped, first, k)
                     ELSE first
       IN SliceTo(picked, k)
  ELSE SliceTo(deduped, k)

SelectTitles == { Str(<< "A" >>), Str(<< "B" >>), Str(<< "C" >>) }
SelectSources == { JsNull, Str(<< "s" >>), Str(<< "t" >>) }

SelectRecs ==
  { [RawRec(t, Str(<< "a" >>)) EXCEPT !.source = src] :
      t \in SelectTitles, src \in SelectSources }

\* body.pageSize: absent, 0, 1, 2, 3 or a string that is no number.
SelectPageSizes == { PNull, PNum(0), PNum(1), PNum(2), PNum(3), PStr }

InitSelect ==
  /\ dIn \in SeqsUpTo(SelectRecs, MaxLen)
  /\ dOut = NoResult
  /\ dPhase = "input"
  /\ dAgain = NoResult
  /\ dK \in { ClampParam(v, SumPageSizeDefault, SumPageSizeMax) : v \in SelectPageSizes }
  /\ dPrefer \in BOOLEAN
  /\ dSel = <<>>
  /\ TrendIdle
  /\ SumIdle

\* The summarize route from rawArticles to articles.
RunSelect ==
  /\ dPhase = "input"
  /\ dOut' = Dedup(SumNormalize(dIn))
  /\ dSel' = IF dOut'.err THEN <<>> ELSE SelectArticles(dOut'.out, dPrefer, dK)
  /\ dPhase' = "selected"
  /\ UNCHANGED << dIn, dAgain, dK, dPrefer, tvars, svars >>

NextSelect == RunSelect

SpecSelect == InitSelect /\ [][NextSelect]_vars

(***************************************************************************)
(* The summarize route: POST.                                              *)
(***************************************************************************)
\* The values of an API key in process.env; "" stands for an unset key.
SumKeys == { "", "k1", "k2" }

\* A value of NEWSAPI_API_KEY with a line break inside, which is no valid
\* value of an HTTP header.
BrokenKey == "k3\nk3"

\* body.query: absent, "", " ", "q" or a number.
SumQueries == { JsNull, Str(<<>>), Str(<< " " >>), Str(<< "q" >>), JsNum }

\* The request body: no JSON at all, the JSON value null, or an object.
SumBodies ==
  { [kind |-> k, query |-> JsNull] : k \in {"nojson", "null"} } \cup
  { [kind |-> "obj", query |-> q] : q \in SumQueries }

SumBatches ==
  { <<>>,
    << RawRec(Str(<< "A" >>), Str(<< "a" >>)) >>,
    << RawRec(Str(<< "A" >>), Str(<< "a" >>)), RawRec(Str(<< "B" >>), Str(<< "b" >>)) >>,
    << RawRec(Str(<< "A" >>), Str(<< "a" >>)), RawRec(Str(<< "B" >>), Str(<< "b" >>)),
       RawRec(Str(<< "E" >>), Str(<< "e" >>)), RawRec(Str(<< "I" >>), Str(<< "i" >>)) >>,
    << RawRec(JsNum, Str(<< "a" >>)) >>,
    << NullRec >> }

\* What the search API may answer: fetch() throws, a status that is not 2xx,
\* a body that is no JSON, a payload without an articles array, or a list.
SearchAnswers ==
  { [st |-> x, list |-> <<>>] : x \in {"neterr", "status", "badbody", "noarray"} }
    \cup { [st |-> "ok", list |-> b] : b \in SumBatches }

\* fetchArticleText: the extracted text, or null on any failure.
PageAnswers == { [st |-> x, list |-> <<>>] : x \in {"text", "none"} }

\* An entry of the articles array of the model's JSON. index: an integer n
\* ("int"), the fraction n + 0.5 ("frac"), or no number ("none", with no i
\* and no id either); nul: the entry is the JSON value null.
ModelItem(idx, m, s, c) ==
  [nul |-> FALSE, index |-> idx, message |-> m, support |-> s, citation |-> c]

NullItem ==
  [nul |-> TRUE, index |-> [k |-> "none", n |-> 0], message |-> JsNull,
   support |-> JsNull, citation |-> JsNull]

IntIdx(n) == [k |-> "int", n |-> n]
FracIdx(n) == [k |-> "frac", n |-> n]
NoIdx == [k |-> "none", n |-> 0]

\* openai.responses.create: rejects, or returns a text without the JSON
\* object asked for, or with it; list: the entries of its articles array.
ModelAnswers ==
  { [st |-> x, list |-> <<>>] : x \in {"throws", "empty"} } \cup
  { [st |-> "json",
     list |-> << ModelItem(IntIdx(1), Str(<< "a" >>), JsNull, Str(<< "c" >>)) >>] }

\* idx && idx >= 1 && idx <= count
IdxInRange(idx, count) ==
  \/ idx.k = "int" /\ idx.n >= 1 /\ idx.n <= count
  \/ idx.k = "frac" /\ idx.n >= 1 /\ idx.n < count

\* if (typeof item.f === "string") per[idx - 1].f = item.f.trim()
SetIfString(cur, v) == IF v.k = "str" THEN Trim(v.s) ELSE cur

\* One turn of the loop over obj.articles; err: a TypeError left the loop
\* (item.index of null, or per[idx - 1] undefined for a fractional idx), and
\* the catch keeps what was written before.
ParseItemStep(st, item) ==
  IF st.err THEN st
  ELSE IF item.nul THEN [st EXCEPT !.err = TRUE]
  ELSE IF ~IdxInRange(item.index, Len(st.per)) THEN st
  ELSE IF item.index.k = "frac"
  THEN IF \E v \in { item.message, item.support, item.citation } : v.k = "str"
       THEN [st EXCEPT !.err = TRUE] ELSE st
  ELSE [st EXCEPT
         !.per[item.index.n] =
           [message |-> SetIfString(@.message, item.message),
            support |-> SetIfString(@.support, item.support),
            citation |-> SetIfString(@.citation, item.citation)]]

\* parseArticleJsonDetailed(raw, count).per, for a raw text whose JSON has
\* the articles array items.
ParseArticleJsonDetailed(items, count) ==
  FoldSeq(ParseItemStep, items,
          [err |-> FALSE,
           per |-> [i \in 1..count |->
                     [message |-> <<>>, support |-> <<>>, citation |-> <<>>]]]).per

\* s.split(/\n|。/)[0]
FirstLine(s) ==
  SubSeq(s, 1, FirstOf({ i \in 1..Len(s) : s[i] = "\n" }, Len(s) + 1) - 1)

\* a || b on strings
StrOr(a, b) == IF a # <<>> THEN a ELSE b

\* `${a.source || "Source"}. (${year}). ${a.title}. ${a.source || "Publisher"}. ${a.url}`
FallbackCitation(a) ==
  LET year == IF a.publishedAt.s # <<>> THEN SubSeq(a.publishedAt.s, 1, Min(4, Len(a.publishedAt.s)))
              ELSE << "n", ".", "d", "." >>
  IN StrOr(a.source.s, << "S", "o", "u", "r", "c", "e" >>) \o << ".", " ", "(" >> \o year
       \o << ")", ".", " " >> \o a.title.s \o << ".", " " >>
       \o StrOr(a.source.s, << "P", "u", "b", "l", "i", "s", "h", "e", "r" >>)
       \o << ".", " " >> \o a.url.s

\* The forEach after the parse and the summaryBullets of the response:
\* [message, support, citation], each the model's or the article's.
SummaryBullets(a, d) ==
  << StrOr(d.message, SubSeq(a.title.s, 1, Min(40, Len(a.title.s)))),
     StrOr(d.support,
           StrOr(SubSeq(FirstLine(a.description.s), 1, Min(60, Len(FirstLine(a.description.s)))),
                 a.source.s)),
     StrOr(d.citation, FallbackCitation(a)) >>

\* const maxFull = 3
MaxFull == 3

\* The answers an external service may give now: any in run 1, and in run 2
\* the one it gave at this point of run 1.
Upstream(Answers) ==
  IF sRun = 1 THEN Answers
  ELSE IF Len(sHist) < Len(sPrev.hist)
  THEN Answers \cap { sPrev.hist[Len(sHist) + 1] }
  ELSE {}

SumErr(status, error, details) ==
  [SumNoResp EXCEPT !.status = status, !.error = error, !.details = details]

SumFinish(r) ==
  /\ sResp' = r
  /\ sPc' = "done"

\* req.json() throws, body.query of null throws, .trim() of a number throws.
SumQueryThrows == sBody.kind \in {"nojson", "null"} \/ sBody.query.k = "num"

\* (body.query || "").trim()
SumQuery == Trim(OrElse(sBody.query, Str(<<>>)).s)

InitSummarize ==
  /\ sBody \in SumBodies
  /\ sEnv \in [news : SumKeys \cup { BrokenKey }, openai : SumKeys]
  /\ sPc = "start"
  /\ sCalls = <<>>
  /\ sArticles = <<>>
  /\ sHist = <<>>
  /\ sRun = 1
  /\ sPrev = [resp |-> SumNoResp, hist |-> <<>>]
  /\ sResp = SumNoResp
  /\ DedupIdle
  /\ TrendIdle

\* The catch block: 500 with err.message as details.
SumRejectBody ==
  /\ sPc = "start"
  /\ SumQueryThrows
  /\ SumFinish(SumErr(500, "summary", "body"))
  /\ UNCHANGED << sBody, sEnv, sCalls, sArticles, sHist, sRun, sPrev, dvars, tvars >>

\* if (!query) return 400
SumNoQuery ==
  /\ sPc = "start"
  /\ ~SumQueryThrows
  /\ SumQuery = <<>>
  /\ SumFinish(SumErr(400, "query", ""))
  /\ UNCHANGED << sBody, sEnv, sCalls, sArticles, sHist, sRun, sPrev, dvars, tvars >>

SumMissingNewsKey ==
  /\ sPc = "start"
  /\ ~SumQueryThrows
  /\ SumQuery # <<>>
  /\ sEnv.news = ""
  /\ SumFinish(SumErr(500, "newskey", ""))
  /\ UNCHANGED << sBody, sEnv, sCalls, sArticles, sHist, sRun, sPrev, dvars, tvars >>

SumMissingOpenAiKey ==
  /\ sPc = "start"
  /\ ~SumQueryThrows
  /\ SumQuery # <<>>
  /\ sEnv.news # "" /\ sEnv.openai = ""
  /\ SumFinish(SumErr(500, "openaikey", ""))
  /\ UNCHANGED << sBody, sEnv, sCalls, sArticles, sHist, sRun, sPrev, dvars, tvars >>

\* fetch(url, { headers: { "X-Api-Key": NEWSAPI_API_KEY } }) with a key that
\* is no header value: fetch throws, before any request is sent, a TypeError
\* whose message quotes the value ('Headers.append: "..." is an invalid
\* header value.'), and the catch block returns the message as details. The
\* model keeps the quoted value as the details.
SumSearchBadHeader ==
  /\ sPc = "start"
  /\ ~SumQueryThrows
  /\ SumQuery # <<>>
  /\ sEnv.news = BrokenKey /\ sEnv.openai # ""
  /\ SumFinish(SumErr(500, "summary", sEnv.news))
  /\ UNCHANGED << sBody, sEnv, sCalls, sArticles, sHist, sRun, sPrev, dvars, tvars >>

\* fetch(url, { headers: { "X-Api-Key": NEWSAPI_API_KEY } })
SumSearch ==
  /\ sPc = "start"
  /\ ~SumQueryThrows
  /\ SumQuery # <<>>
  /\ sEnv.news \notin { "", BrokenKey } /\ sEnv.openai # ""
  /\ sCalls' = Append(sCalls, [to |-> "search", key |-> sEnv.news])
  /\ sPc' = "searching"
  /\ UNCHANGED << sBody, sEnv, sArticles, sHist, sRun, sPrev, sResp, dvars, tvars >>

\* fetch() or newsRes.json() throws: the catch block.
SumSearchThrows ==
  /\ sPc = "searching"
  /\ \E o \in Upstream(SearchAnswers) :
       /\ o.st \in {"neterr", "badbody"}
       /\ sHist' = Append(sHist, o)
       /\ SumFinish(SumErr(500, "summary", o.st))
  /\ UNCHANGED << sBody, sEnv, sCalls, sArticles, sRun, sPrev, dvars, tvars >>

\* if (!newsRes.ok) return 502 with the text of the answer as details.
SumSearchRefused ==
  /\ sPc = "searching"
  /\ \E o \in Upstream(SearchAnswers) :
       /\ o.st = "status"
       /\ sHist' = Append(sHist, o)
       /\ SumFinish(SumErr(502, "newsapi", "upstream"))
  /\ UNCHANGED << sBody, sEnv, sCalls, sArticles, sRun, sPrev, dvars, tvars >>

\* A 2xx answer: normalise, de-duplicate, select (pageSize and
\* preferDiverseSources absent from the body); no article ends the request.
SumSearchAnswers ==
  /\ sPc = "searching"
  /\ \E o \in Upstream(SearchAnswers) :
       /\ o.st \in {"noarray", "ok"}
       /\ sHist' = Append(sHist, o)
       /\ LET d == Dedup(SumNormalize(o.list))
              k == ClampParam(PNull, SumPageSizeDefault, SumPageSizeMax)
              sel == SelectArticles(d.out, FALSE, k)
          IN IF d.err
             THEN SumFinish(SumErr(500, "summary", "type")) /\ UNCHANGED sArticles
             ELSE IF sel = <<>>
             THEN SumFinish([SumNoResp EXCEPT !.status = 200, !.summary = "none"])
                    /\ UNCHANGED sArticles
             ELSE /\ sArticles' = [i \in 1..Len(sel) |-> [art |-> sel[i], text |-> "unfetched"]]
                  /\ sPc' = "pages"
                  /\ UNCHANGED sResp
  /\ UNCHANGED << sBody, sEnv, sCalls, sRun, sPrev, dvars, tvars >>

\* A flaw of the kind the loop could have: the page of every article is
\* fetched.
SumFullAll == 1..Len(sArticles)

\* The articles whose page is fetched: articles.slice(0, maxFull).
SumFull == 1..(IF Len(sArticles) <= MaxFull THEN Len(sArticles) ELSE MaxFull)

SumUnfetched == { i \in SumFull : sArticles[i].text = "unfetched" }

\* One turn of the loop over articles.slice(0, maxFull): fetch(a.url).
SumPageFetch ==
  /\ sPc = "pages"
  /\ SumUnfetched # {}
  /\ \E o \in Upstream(PageAnswers) :
       /\ sHist' = Append(sHist, o)
       /\ sArticles' = [sArticles EXCEPT ![FirstOf(SumUnfetched, 0)].text = o.st]
  /\ sCalls' = Append(sCalls, [to |-> "page", key |-> ""])
  /\ UNCHANGED << sBody, sEnv, sPc, sRun, sPrev, sResp, dvars, tvars >>

\* new OpenAI({ apiKey }).responses.create(...) rejects: the catch block.
SumModelThrows ==
  /\ sPc = "pages"
  /\ SumUnfetched = {}
  /\ \E o \in Upstream(ModelAnswers) :
       /\ o.st = "throws"
       /\ sHist' = Append(sHist, o)
  /\ sCalls' = Append(sCalls, [to |-> "model", key |-> sEnv.openai])
  /\ SumFinish(SumErr(500, "summary", "model"))
  /\ UNCHANGED << sBody, sEnv, sArticles, sRun, sPrev, dvars, tvars >>

\* The model answers: one entry per article, its bullets from the model's
\* JSON or from the article.
SumModelReturnsOn(Answers) ==
  /\ sPc = "pages"
  /\ SumUnfetched = {}
  /\ \E o \in Upstream(Answers) :
       /\ o.st \in {"empty", "json"}
       /\ sHist' = Append(sHist, o)
       /\ LET per == ParseArticleJsonDetailed(o.list, Len(sArticles)) IN
          SumFinish([SumNoResp EXCEPT
            !.status = 200,
            !.articles =
              [i \in 1..Len(sArticles) |->
                [art |-> sArticles[i].art,
                 extracted |-> sArticles[i].text = "text",
                 bullets |-> SummaryBullets(sArticles[i].art, per[i])]]])
  /\ sCalls' = Append(sCalls, [to |-> "model", key |-> sEnv.openai])
  /\ UNCHANGED << sBody, sEnv, sArticles, sRun, sPrev, dvars, tvars >>

SumModelReturns == SumModelReturnsOn(ModelAnswers)

\* The same request once more, under other keys that the services accept as
\* well.
SumRerun ==
  /\ sPc = "done"
  /\ sRun = 1
  /\ sEnv.news \notin { "", BrokenKey } /\ sEnv.openai # ""
  /\ \E e \in [news : SumKeys \ {""}, openai : SumKeys \ {""}] :
       /\ e # sEnv
       /\ sEnv' = e
  /\ sRun' = 2
  /\ sPrev' = [resp |-> sResp, hist |-> sHist]
  /\ sPc' = "start"
  /\ sCalls' = <<>>
  /\ sArticles' = <<>>
  /\ sHist' = <<>>
  /\ sResp' = SumNoResp
  /\ UNCHANGED << sBody, dvars, tvars >>

NextSummarize ==
  \/ SumRejectBody
  \/ SumNoQuery
  \/ SumMissingNewsKey
  \/ SumMissingOpenAiKey
  \/ SumSearchBadHeader
  \/ SumSearch
  \/ SumSearchThrows
  \/ SumSearchRefused
  \/ SumSearchAnswers
  \/ SumPageFetch
  \/ SumModelThrows
  \/ SumModelReturns
  \/ SumRerun

SpecSummarize == InitSummarize /\ [][NextSummarize]_vars

\* The bullets as a function of the model's answer: requests that stand
\* before the page fetches, with one or two selected articles.
MaxItems == 2

ItemIndices == { IntIdx(0), IntIdx(1), IntIdx(2), IntIdx(3), FracIdx(1), NoIdx }

BulletItems ==
  { ModelItem(idx, m, sup, c) :
      idx \in ItemIndices,
      m \in { JsNull, Str(<< "a" >>), Str(<< "e" >>), Str(<< " " >>) },
      sup \in { JsNull, Str(<< "b" >>) },
      c \in { JsNull, Str(<< "c" >>) } }
    \cup { NullItem }

BulletAnswers ==
  { [st |-> "empty", list |-> <<>>] } \cup
  { [st |-> "json", list |-> l] : l \in SeqsUpTo(BulletItems, MaxItems) }

InitBullets ==
  /\ sBody = [kind |-> "obj", query |-> Str(<< "q" >>)]
  /\ sEnv = [news |-> "k1", openai |-> "k2"]
  /\ sPc = "pages"
  /\ sCalls = << [to |-> "search", key |-> "k1"] >>
  /\ \E o \in SearchAnswers :
       /\ o.st = "ok"
       /\ ~Dedup(SumNormalize(o.list)).err
       /\ Dedup(SumNormalize(o.list)).out # <<>>
       /\ sHist = << o >>
       /\ sArticles = [i \in 1..Len(Dedup(SumNormalize(o.list)).out) |->
                         [art |-> Dedup(SumNormalize(o.list)).out[i], text |-> "unfetched"]]
  /\ sRun = 1
  /\ sPrev = [resp |-> SumNoResp, hist |-> <<>>]
  /\ sResp = SumNoResp
  /\ DedupIdle
  /\ TrendIdle

NextBullets ==
  \/ SumPageFetch
  \/ SumModelReturnsOn(BulletAnswers)

SpecBullets == InitBullets /\ [][NextBullets]_vars

(***************************************************************************)
(* The trending routes: inputs of the model.                               *)
(***************************************************************************)
\* Longest model text, in segments, and most topics in its object.
MaxSegs == 2
MaxTopics == 1

TitleSale == << "S", "a", "l", "e", " ", "u", "p" >>
TitleAi == << "A", "I", " ", "u", "p" >>

TrendRec(t, u, src, pub) ==
  [nul |-> FALSE, title |-> t, url |-> u, source |-> src,
   publishedAt |-> pub, description |-> JsNull]

RecSaleA == TrendRec(Str(TitleSale), Str(<< "a" >>), Str(<< "s" >>), Str(<< "2" >>))
RecSaleB == TrendRec(Str(TitleSale), Str(<< "b" >>), JsNull, Str(<< "1" >>))
RecAi == TrendRec(Str(TitleAi), Str(<< "c" >>), Str(<< "s" >>), Str(<< "2" >>))
RecNumTitle == TrendRec(JsNum, Str(<< "a" >>), JsNull, JsNull)
RecNoTitle == TrendRec(JsNull, Str(<< "a" >>), JsNull, JsNull)

\* The articles lists a 2xx payload may carry.
Batches ==
  { <<>>, << RecSaleA >>, << RecSaleB >>, << RecAi >>, << RecSaleA, RecSaleB >>,
    << NullRec >>, << RecNumTitle >>, << RecNoTitle, RecSaleA >> }

\* How fetchNewsBatch may end: fetch() throws, a status that is not 2xx,
\* res.json() throws, a payload without an articles array, or a list.
FetchOutcomes ==
  { [st |-> x, list |-> <<>>] : x \in {"neterr", "status", "badbody", "noarray"} }
    \cup { [st |-> "ok", list |-> b] : b \in Batches }

ParamValues == { PNull, PNum(-1), PNum(0), PNum(2), PNum(200), PNumStr(7), PStr }

Bodies(D, P, S) ==
  { [nul |-> FALSE, days |-> d, pages |-> p, pageSize |-> z] :
      d \in D, p \in P, z \in S }
    \cup { [nul |-> TRUE, days |-> PNull, pages |-> PNull, pageSize |-> PNull] }

Envs == [news : BOOLEAN, openai : BOOLEAN]

Segments == {"prose", "ws", "lbrace", "rbrace", "obj"}

ModelTexts == SeqsUpTo(Segments, MaxSegs)

ModelRefs == { << 1 >>, << 2, 1 >>, << 1, 9 >>, << 0 >> }

ModelTopic(refs) == [topic |-> << "!" >>, articles |-> refs, citations |-> <<>>]

Payloads ==
  { NoPayload } \cup
  { [arr |-> TRUE, topics |-> ts] :
      ts \in SeqsUpTo({ ModelTopic(r) : r \in ModelRefs }, MaxTopics) }

HasObject(text) == \E i \in 1..Len(text) : text[i] = "obj"

\* Most articles of a list to be scored.
MaxBatch == 3

\* "ai sale eco supply price costco": six entries of TREND_KEYWORDS in a
\* title of 31 characters.
TitleSixKeywords ==
  << "a", "i", " ", "s", "a", "l", "e", " ", "e", "c", "o", " ",
     "s", "u", "p", "p", "l", "y", " ", "p", "r", "i", "c", "e", " ",
     "c", "o", "s", "t", "c", "o" >>

\* A description of 301 characters.
LongDescription == [i \in 1..301 |-> "b"]

\* An article of one source, with no publish time, six keywords and a long
\* description.
RecSixKeywords ==
  [TrendRec(Str(TitleSixKeywords), Str(<< "c" >>), Str(<< "s" >>), JsNull)
     EXCEPT !.description = Str(LongDescription)]

ScoreRecs ==
  { TrendRec(Str(t), Str(u), src, pub) :
      t \in { TitleSale, TitleAi },
      u \in { << "a" >>, << "b" >> },
      src \in { JsNull, Str(<< "s" >>) },
      pub \in { JsNull, Str(<< "1" >>), Str(<< "2" >>), Str(<< "3" >>),
                Str(<< "4" >>) } }
  \cup { RecSixKeywords }

\* The number of articles of a full page of the search API, as the model
\* draws it.
BatchLen == 41

Digit(n) == Ascii[Code("0") + n]

\* A number below 1000 in three digits.
Digits3(n) == << Digit(n \div 100), Digit((n \div 10) % 10), Digit(n % 10) >>

\* The n-th article of the search API's result set: "Sale n007", published
\* the later the larger n is.
GenRec(n) ==
  TrendRec(Str(<< "S", "a", "l", "e", " ", "n" >> \o Digits3(n)),
           Str(<< "u" >> \o Digits3(n)), Str(<< "s" >>), Str(Digits3(n)))

\* A full page: the articles off + 1 .. off + BatchLen.
GenBatch(off) == [i \in 1..BatchLen |-> GenRec(off + i)]

\* Pages that overlap in one article, pages that do not overlap.
PageOffsets == { 0, BatchLen - 1, BatchLen }

PageOutcomes ==
  { [st |-> "ok", list |-> <<>>] } \cup
  { [st |-> "ok", list |-> GenBatch(off)] : off \in PageOffsets }

\* The model's text: nothing, or one object.
PageTexts == { <<>>, << "obj" >> }

(***************************************************************************)
(* The trending routes: POST.                                              *)
(***************************************************************************)
ErrResp(status, error, details) ==
  [NoResp EXCEPT !.status = status, !.error = error, !.details = details]

InitRequest(B) ==
  /\ variant \in {"scored", "plain"}
  /\ body \in B
  /\ env \in Envs
  /\ pc = "start"
  /\ days = NaN /\ pages = NaN /\ pageSize = NaN
  /\ fetches = <<>>
  /\ mergedRaw = <<>>
  /\ scored = <<>>
  /\ clusterTarget = <<>>
  /\ prompt = <<>>
  /\ aiText = <<>> /\ aiPayload = NoPayload
  /\ aiFailed = FALSE
  /\ usedFallback = FALSE
  /\ resp = NoResp
  /\ DedupIdle
  /\ SumIdle

Finish(r) ==
  /\ resp' = r
  /\ pc' = "done"

\* The request body is the JSON value null: body.days throws a TypeError.
RejectBody ==
  /\ pc = "start"
  /\ body.nul
  /\ Finish(ErrResp(500, "trend", "body"))
  /\ UNCHANGED << svars, dvars, variant, body, env, days, pages, pageSize, fetches,
                  mergedRaw, scored, clusterTarget, prompt, aiText, aiPayload,
                  aiFailed, usedFallback >>

\* const days = ..., pages = ..., pageSize = ...
ReadParams ==
  /\ days' = ClampParam(body.days, DaysDefault, DaysMax)
  /\ pages' = ClampParam(body.pages, PagesDefault, PagesMax)
  /\ pageSize' = ClampParam(body.pageSize, PageSizeDefault, PageSizeMax)

MissingNewsKey ==
  /\ pc = "start"
  /\ ~body.nul
  /\ ReadParams
  /\ ~env.news
  /\ Finish(ErrResp(500, "newskey", ""))
  /\ UNCHANGED << svars, dvars, variant, body, env, fetches, mergedRaw, scored,
                  clusterTarget, prompt, aiText, aiPayload, aiFailed, usedFallback >>

MissingOpenAiKey ==
  /\ pc = "start"
  /\ ~body.nul
  /\ ReadParams
  /\ env.news /\ ~env.openai
  /\ Finish(ErrResp(500, "openaikey", ""))
  /\ UNCHANGED << svars, dvars, variant, body, env, fetches, mergedRaw, scored,
                  clusterTarget, prompt, aiText, aiPayload, aiFailed, usedFallback >>

\* new Date(Date.now() - NaN).toISOString() throws a RangeError.
BadDate ==
  /\ pc = "start"
  /\ ~body.nul
  /\ ReadParams
  /\ env.news /\ env.openai
  /\ days'.nan
  /\ Finish(ErrResp(500, "trend", "date"))
  /\ UNCHANGED << svars, dvars, variant, body, env, fetches, mergedRaw, scored,
                  clusterTarget, prompt, aiText, aiPayload, aiFailed, usedFallback >>

\* The two loops push one promise per (sortBy, page).
IssueFetches ==
  /\ pc = "start"
  /\ ~body.nul
  /\ ReadParams
  /\ env.news /\ env.openai
  /\ ~days'.nan
  /\ fetches' =
       LET keys == FetchKeys(pages')
       IN [i \in 1..Len(keys) |->
            [sortBy |-> keys[i].sortBy, page |-> keys[i].page,
             st |-> "pending", list |-> <<>>]]
  /\ pc' = "fetching"
  /\ UNCHANGED << svars, dvars, variant, body, env, mergedRaw, scored, clusterTarget,
                  prompt, aiText, aiPayload, aiFailed, usedFallback, resp >>

Rejected(f) == f.st \in {"neterr", "badbody"}

\* One fetchNewsBatch settles. A rejection makes Promise.all reject, and the
\* catch block runs before any other fetch settles.
FetchSettleOn(Outcomes) ==
  /\ pc = "fetching"
  /\ \A j \in 1..Len(fetches) : ~Rejected(fetches[j])
  /\ \E i \in 1..Len(fetches), o \in Outcomes :
       /\ fetches[i].st = "pending"
       /\ fetches' = [fetches EXCEPT ![i].st = o.st, ![i].list = o.list]
  /\ UNCHANGED << svars, dvars, variant, body, env, pc, days, pages, pageSize,
                  mergedRaw, scored, clusterTarget, prompt, aiText, aiPayload,
                  aiFailed, usedFallback, resp >>

FetchSettle == FetchSettleOn(FetchOutcomes)

\* await Promise.all(fetchPromises) throws what the rejected fetch threw.
AwaitReject ==
  /\ pc = "fetching"
  /\ \E i \in 1..Len(fetches) :
       /\ Rejected(fetches[i])
       /\ Finish(ErrResp(500, "trend", fetches[i].st))
  /\ UNCHANGED << svars, dvars, variant, body, env, days, pages, pageSize, fetches,
                  mergedRaw, scored, clusterTarget, prompt, aiText, aiPayload,
                  aiFailed, usedFallback >>

\* A flaw of the kind the await could have: it goes on as soon as one fetch
\* is fulfilled and no fetch has rejected.
SomeFulfilled ==
  /\ \E i \in 1..Len(fetches) : fetches[i].st \in {"status", "noarray", "ok"}
  /\ \A i \in 1..Len(fetches) : ~Rejected(fetches[i])

AllFulfilled ==
  \A i \in 1..Len(fetches) : fetches[i].st \in {"status", "noarray", "ok"}

\* A flaw of the kind the merge could have: the batches concatenated in the
\* order in which the fetches settled.
FlatAsSettled(fs) ==
  LET nth(k) == CHOOSE i \in 1..Len(fs) : fs[i].at = k
      RECURSIVE Cat(_)
      Cat(k) == IF k > Len(fs) THEN <<>> ELSE fs[nth(k)].list \o Cat(k + 1)
  IN Cat(1)

\* rawBatches.flat()
RECURSIVE Flat(_)
Flat(fs) == IF fs = <<>> THEN <<>> ELSE Head(fs).list \o Flat(Tail(fs))

\* normalize(mergedRaw) throws a TypeError.
MergeFails ==
  /\ pc = "fetching"
  /\ AllFulfilled
  /\ Normalize(Flat(fetches)).err
  /\ mergedRaw' = Flat(fetches)
  /\ Finish(ErrResp(500, "trend", "normalize"))
  /\ UNCHANGED << svars, dvars, variant, body, env, days, pages, pageSize, fetches,
                  scored, clusterTarget, prompt, aiText, aiPayload,
                  aiFailed, usedFallback >>

\* part_002, lines 173-197: merge, normalize, sort, score, rank, truncate,
\* re-index, build the prompt, call the model.
PrepareScored ==
  /\ pc = "fetching"
  /\ variant = "scored"
  /\ AllFulfilled
  /\ ~Normalize(Flat(fetches)).err
  /\ mergedRaw' = Flat(fetches)
  /\ \E sorted \in SortsByPublished(Normalize(Flat(fetches)).out) :
       \E ranked \in SortsByScore(ScoreArticles(sorted)) :
         /\ scored' = ranked
         /\ clusterTarget' = Reindex(Take(ranked, ClusterCapScored))
  /\ prompt' = BuildClusterPrompt(clusterTarget')
  /\ pc' = "model"
  /\ UNCHANGED << svars, dvars, variant, body, env, days, pages, pageSize, fetches,
                  aiText, aiPayload, aiFailed, usedFallback, resp >>

\* part_003, lines 135-147: merge, normalize, sort, truncate, build the
\* prompt, call the model.
PreparePlain ==
  /\ pc = "fetching"
  /\ variant = "plain"
  /\ AllFulfilled
  /\ ~Normalize(Flat(fetches)).err
  /\ mergedRaw' = Flat(fetches)
  /\ \E sorted \in SortsByPublished(Normalize(Flat(fetches)).out) :
       clusterTarget' = SliceOnly(sorted)
  /\ prompt' = BuildClusterPrompt(clusterTarget')
  /\ pc' = "model"
  /\ UNCHANGED << svars, dvars, variant, body, env, days, pages, pageSize, fetches,
                  scored, aiText, aiPayload, aiFailed, usedFallback, resp >>

\* openai.responses.create rejects.
ModelThrows ==
  /\ pc = "model"
  /\ aiFailed' = TRUE
  /\ Finish(ErrResp(500, "trend", "model"))
  /\ UNCHANGED << svars, dvars, variant, body, env, days, pages, pageSize, fetches,
                  mergedRaw, scored, clusterTarget, prompt, aiText, aiPayload,
                  usedFallback >>

\* scoredArticles: clusterSource.slice(0, 200) without the index.
ScoredOut(s) ==
  [i \in 1..Len(s) |->
    [title |-> s[i].title, description |-> s[i].description,
     url |-> s[i].url, source |-> s[i].source,
     publishedAt |-> s[i].publishedAt, score |-> s[i].score]]

\* The model answers: parse, fall back when no topic was parsed, respond.
ModelReturnsOn(Texts) ==
  /\ pc = "model"
  /\ \E text \in Texts :
       \E payload \in (IF HasObject(text) THEN Payloads ELSE { NoPayload }) :
         LET parsed == ParseClusterJson(text, payload)
             topics == IF parsed = <<>> THEN Fallback(clusterTarget) ELSE parsed
         IN /\ aiText' = text
            /\ aiPayload' = payload
            /\ usedFallback' = (parsed = <<>>)
            /\ Finish([NoResp EXCEPT
                 !.status = 200,
                 !.totalFetched = Len(mergedRaw),
                 !.articlesUsedForClustering = Len(clusterTarget),
                 !.trendingTopics = topics,
                 !.clusteredArticles = clusterTarget,
                 !.scoredArticles = ScoredOut(scored)])
  /\ UNCHANGED << svars, dvars, variant, body, env, days, pages, pageSize, fetches,
                  mergedRaw, scored, clusterTarget, prompt, aiFailed >>

ModelReturns == ModelReturnsOn(ModelTexts)

Next ==
  \/ RejectBody
  \/ MissingNewsKey
  \/ MissingOpenAiKey
  \/ BadDate
  \/ IssueFetches
  \/ FetchSettle
  \/ AwaitReject
  \/ MergeFails
  \/ PrepareScored
  \/ PreparePlain
  \/ ModelThrows
  \/ ModelReturns

\* The bodies of the pipeline's runs: one page of each sort order, or pages
\* that is no number.
Init ==
  InitRequest(Bodies({ PNull, PStr }, { PNum(1), PStr }, { PNull }))

Spec == Init /\ [][Next]_vars

\* The request up to the fan-out, over every kind of body.
\* Requests of one page per sort order whose fetches return full pages.
InitPages ==
  /\ variant \in {"scored", "plain"}
  /\ body = [NoBody EXCEPT !.pages = PNum(1)]
  /\ env = [news |-> TRUE, openai |-> TRUE]
  /\ pc = "start"
  /\ days = NaN /\ pages = NaN /\ pageSize = NaN
  /\ fetches = <<>>
  /\ mergedRaw = <<>>
  /\ scored = <<>>
  /\ clusterTarget = <<>>
  /\ prompt = <<>>
  /\ aiText = <<>> /\ aiPayload = NoPayload
  /\ aiFailed = FALSE
  /\ usedFallback = FALSE
  /\ resp = NoResp
  /\ DedupIdle
  /\ SumIdle

NextPages ==
  \/ IssueFetches
  \/ FetchSettleOn(PageOutcomes)
  \/ PrepareScored
  \/ PreparePlain
  \/ ModelThrows
  \/ ModelReturnsOn(PageTexts)

SpecPages == InitPages /\ [][NextPages]_vars

\* The fan-out with the result of every (sortBy, page) fetch fixed in
\* advance: plan is what the fetch will settle with, at the position of the
\* fetch in the order of completion (0 while it is pending).
PlanOutcomes ==
  { [st |-> x, list |-> <<>>] : x \in {"neterr", "badbody", "status"} }
    \cup { [st |-> "ok", list |-> b] : b \in { << RecSaleA >>, << RecAi >>, << RecNumTitle >> } }

FanoutPages == { 1, 2 }

PlannedFetches(n) ==
  { [i \in 1..Len(FetchKeys(Num(n))) |->
       [sortBy |-> FetchKeys(Num(n))[i].sortBy, page |-> FetchKeys(Num(n))[i].page,
        st |-> "pending", list |-> <<>>, plan |-> o[i], at |-> 0]] :
      o \in [1..(2 * n) -> PlanOutcomes] }

InitFanout ==
  /\ variant \in {"scored", "plain"}
  /\ body = NoBody
  /\ env = [news |-> TRUE, openai |-> TRUE]
  /\ pc = "fetching"
  /\ days = Num(DaysDefault) /\ pageSize = Num(PageSizeDefault)
  /\ \E n \in FanoutPages :
       /\ pages = Num(n)
       /\ fetches \in PlannedFetches(n)
  /\ mergedRaw = <<>>
  /\ scored = <<>>
  /\ clusterTarget = <<>>
  /\ prompt = <<>>
  /\ aiText = <<>> /\ aiPayload = NoPayload
  /\ aiFailed = FALSE
  /\ usedFallback = FALSE
  /\ resp = NoResp
  /\ DedupIdle
  /\ SumIdle

\* One fetchNewsBatch settles with its planned result, in any order.
FetchSettlePlanned ==
  /\ pc = "fetching"
  /\ \A j \in 1..Len(fetches) : ~Rejected(fetches[j])
  /\ \E i \in 1..Len(fetches) :
       /\ fetches[i].st = "pending"
       /\ fetches' = [fetches EXCEPT
            ![i].st = fetches[i].plan.st,
            ![i].list = fetches[i].plan.list,
            ![i].at = Cardinality({ j \in 1..Len(fetches) : fetches[j].st # "pending" }) + 1]
  /\ UNCHANGED << svars, dvars, variant, body, env, pc, days, pages, pageSize,
                  mergedRaw, scored, clusterTarget, prompt, aiText, aiPayload,
                  aiFailed, usedFallback, resp >>

NextFanout ==
  \/ FetchSettlePlanned
  \/ AwaitReject
  \/ MergeFails
  \/ PrepareScored
  \/ PreparePlain
  \/ ModelThrows
  \/ ModelReturnsOn(PageTexts)

SpecFanout == InitFanout /\ [][NextFanout]_vars

\* scoreArticles and the ranking as functions of the merged list.
InitScore ==
  /\ variant = "scored"
  /\ body = NoBody
  /\ env = [news |-> TRUE, openai |-> TRUE]
  /\ pc = "scoring"
  /\ days = NaN /\ pages = NaN /\ pageSize = NaN
  /\ fetches = <<>>
  /\ mergedRaw \in SeqsUpTo(ScoreRecs, MaxBatch)
  /\ scored = <<>>
  /\ clusterTarget = <<>>
  /\ prompt = <<>>
  /\ aiText = <<>> /\ aiPayload = NoPayload
  /\ aiFailed = FALSE
  /\ usedFallback = FALSE
  /\ resp = NoResp
  /\ DedupIdle
  /\ SumIdle

\* part_002, lines 175-193: normalize, sort, score, rank, truncate,
\* re-index.
RunScore ==
  /\ pc = "scoring"
  /\ \E sorted \in SortsByPublished(Normalize(mergedRaw).out) :
       \E ranked \in SortsByScore(ScoreArticles(sorted)) :
         /\ scored' = ranked
         /\ clusterTarget' = Reindex(Take(ranked, ClusterCapScored))
  /\ pc' = "scored"
  /\ UNCHANGED << svars, dvars, variant, body, env, days, pages, pageSize, fetches,
                  mergedRaw, prompt, aiText, aiPayload,
                  aiFailed, usedFallback, resp >>

NextScore == RunScore

SpecScore == InitScore /\ [][NextScore]_vars

InitParams == InitRequest(Bodies(ParamValues, ParamValues, ParamValues))

NextParams ==
  \/ RejectBody
  \/ MissingNewsKey
  \/ MissingOpenAiKey
  \/ BadDate
  \/ IssueFetches

SpecParams == InitParams /\ [][NextParams]_vars

(***************************************************************************)
(* Claims.                                                                 *)
(***************************************************************************)
\* The request ended with the success response.
Succeeded == pc = "done" /\ resp.status = 200

\* C1: every entry of every emitted topic's articles list is within [1, N],
\* N the number of articles sent to clustering, for parsed and for fallback
\* topics alike.
C1_TopicIndicesInRange ==
  (Succeeded /\ resp.articlesUsedForClustering > 0) =>
    \A t \in 1..Len(resp.trendingTopics) :
      \A k \in 1..Len(resp.trendingTopics[t].articles) :
        resp.trendingTopics[t].articles[k]
          \in 1..resp.articlesUsedForClustering

\* The model's text is empty or does not parse as a JSON object.
TextUnparsable ==
  aiText = <<>> \/ ~ParsesAsObject(MatchedText(aiText))

\* C2: when the model's text is empty or unparsable, the response has at
\* least one topic if the clustering list is non-empty, and no topic only if
\* that list is empty.
C2_FallbackGuarantee ==
  (Succeeded /\ TextUnparsable) =>
    (resp.trendingTopics = <<>> <=> clusterTarget = <<>>)

\* A fetch of the fan-out failed: a status that is not 2xx, an error thrown
\* by fetch, an unreadable body.
FetchFailed(f) == f.st \in {"status", "neterr", "badbody"}

\* C3: a failed fetch counts as an empty result for that fetch alone; when
\* nothing but fetches fails, the request ends with the success response
\* over the merged results of the other fetches.
C3_FetchFailureIsolated ==
  ( /\ pc = "done"
    /\ \E i \in 1..Len(fetches) : FetchFailed(fetches[i])
    /\ ~aiFailed
    /\ ~Normalize(Flat(fetches)).err )
  => (resp.status = 200 /\ resp.totalFetched = Len(Flat(fetches)))

\* C4: when the clustering-model call fails, the request ends with the
\* success response carrying the scored articles and no topic.
C4_ModelFailureTolerated ==
  (pc = "done" /\ aiFailed) =>
    /\ resp.status = 200
    /\ resp.trendingTopics = <<>>
    /\ resp.scoredArticles = ScoredOut(scored)
    /\ resp.clusteredArticles = clusterTarget

\* C5: when every fetch of the fan-out gave an empty list or failed, the
\* response is the success response with totalFetched = 0,
\* articlesUsedForClustering = 0 and no topic, whatever the model does.
C5_AllFetchesEmpty ==
  ( /\ pc = "done"
    /\ fetches # <<>>
    /\ \A i \in 1..Len(fetches) :
         fetches[i].st # "pending" /\ fetches[i].list = <<>> )
  => /\ resp.status = 200
     /\ resp.totalFetched = 0
     /\ resp.articlesUsedForClustering = 0
     /\ resp.trendingTopics = <<>>

\* C6: whatever the 2xx payloads hold and whatever text the model returns,
\* the request ends with the success response.
C6_MalformedContentTolerated ==
  ( /\ pc = "done"
    /\ fetches # <<>>
    /\ \A i \in 1..Len(fetches) : fetches[i].st \in {"ok", "noarray"}
    /\ ~aiFailed )
  => resp.status = 200

InRange(x, lo, hi) == ~x.nan /\ x.n \in lo..hi

\* C7: for every request body the effective days, pages and pageSize are
\* integers of [1,30], [1,5] and [1,100], and the request does not fail
\* over the value of these fields.
C7_ParamsClamped ==
  (pc \in {"fetching", "done"} /\ ~body.nul /\ env.news /\ env.openai) =>
    /\ InRange(days, ParamMin, DaysMax)
    /\ InRange(pages, ParamMin, PagesMax)
    /\ InRange(pageSize, ParamMin, PageSizeMax)
    /\ resp.details # "date"

\* C8: in both variants the article lines of the prompt carry the indices
\* 1..N in list order.
C8_PromptIndicesContiguous ==
  pc \in {"model", "done"} =>
    /\ Len(prompt) = Len(clusterTarget)
    /\ \A i \in 1..Len(prompt) : prompt[i].index = i

\* The identity key as the specification words it: (title || url), trimmed
\* and lower-cased.
ClaimKey(a) == ToLower(Trim(IF a.title.s # <<>> THEN a.title.s ELSE a.url.s))

\* C9: no two articles retained by the summarize routes' de-duplication loop
\* share the key (title || url), trimmed and lower-cased.
C9_DedupKeyInvariant ==
  (dPhase = "deduped" /\ ~dOut.err) =>
    \A i, j \in 1..Len(dOut.out) :
      i # j => ClaimKey(dOut.out[i]) # ClaimKey(dOut.out[j])

\* C9 witness: the loop dropped an article whose key differs from a retained
\* one's only by case and surrounding blanks, and retained two articles.
C9_Witness ==
  /\ dPhase = "deduped"
  /\ ~dOut.err
  /\ Len(dOut.out) = 2
  /\ Len(dIn) = 3
  /\ dIn[1].title = Str(<< "A" >>)
  /\ dIn[2].title = Str(<< "a", " " >>)

\* Two raw articles with the same non-empty title and different URLs.
SameTitleOtherUrl(r1, r2) ==
  /\ ~r1.nul /\ ~r2.nul
  /\ r1.title.k = "str" /\ Trim(r1.title.s) # <<>>
  /\ r1.title = r2.title
  /\ r1.url.k = "str" /\ r2.url.k = "str"
  /\ Trim(r1.url.s) # <<>> /\ Trim(r2.url.s) # <<>>
  /\ r1.url # r2.url

\* The retained articles that carry the title of raw record r.
RetainedWithTitle(out, r) ==
  { k \in 1..Len(out) :
      IF dPhase = "normalized"
      THEN out[k].title = Trim(r.title.s)
      ELSE out[k].title = r.title }

\* C10: of two raw articles with the same title and different URLs only the
\* first is kept, by the summarize loop and by the trending normalize(): no
\* two retained articles carry that title.
C10_SameTitleMerged ==
  (dPhase \in {"deduped", "normalized"} /\ ~dOut.err) =>
    \A i, j \in 1..Len(dIn) :
      (i < j /\ SameTitleOtherUrl(dIn[i], dIn[j]))
        => Cardinality(RetainedWithTitle(dOut.out, dIn[i])) <= 1

\* C11: a de-duplicator run on its own output returns exactly that output,
\* the same articles in the same order (the summarize loop and normalize()).
C11_DedupIdempotent ==
  dPhase = "again" => (~dAgain.err /\ dAgain.out = dOut.out)

\* C11 witness: the first run dropped an article of three and kept two, and
\* the second run was made.
C11_Witness ==
  /\ dPhase = "again"
  /\ Len(dIn) = 3
  /\ Len(dOut.out) = 2

\* The smaller of two naturals.
Least(x, y) == IF x <= y THEN x ELSE y

\* C12: with diversity selection and a target of k articles, the selected
\* list has exactly min(k, number of de-duplicated articles) entries and no
\* article twice.
C12_SelectionCount ==
  (dPhase = "selected" /\ dPrefer /\ ~dK.nan) =>
    /\ Len(dSel) = Least(dK.n, Len(dOut.out))
    /\ \A i, j \in 1..Len(dSel) : i # j => dSel[i] # dSel[j]

\* C12 witness: three de-duplicated articles of one source and a target of
\* two, so that the second selected article comes from the backfill.
C12_Witness ==
  /\ dPhase = "selected" /\ dPrefer /\ ~dK.nan
  /\ dK.n = 2
  /\ Len(dOut.out) = 3
  /\ Cardinality(SourcesOf(dOut.out)) = 1
  /\ Len(dSel) = 2

\* C13: with diversity selection and a target of k articles, the selected
\* list holds at least min(k, number of distinct sources of the
\* de-duplicated articles) distinct sources.
C13_DiversityBound ==
  (dPhase = "selected" /\ dPrefer /\ ~dK.nan) =>
    Cardinality(SourcesOf(dSel)) >=
      Least(dK.n, Cardinality(SourcesOf(dOut.out)))

\* C13 witness: the first two of three articles share a source, the third
\* has another, and a target of two selects the first and the third.
C13_Witness ==
  /\ dPhase = "selected" /\ dPrefer /\ ~dK.nan
  /\ dK.n = 2
  /\ Len(dOut.out) = 3
  /\ dOut.out[1].source = dOut.out[2].source
  /\ dOut.out[3].source # dOut.out[1].source
  /\ dSel = << dOut.out[1], dOut.out[3] >>

\* The articles of the clustering set that carry index k.
Denotes(k) == { i \in 1..Len(resp.clusteredArticles) : resp.clusteredArticles[i].index = k }

\* The title words of length > 2 of the clustering set with their counts.
LongWords == 
  LET ws == AllWords(resp.clusteredArticles)
  IN { w \in { ws[i] : i \in 1..Len(ws) } : Len(w) > 2 }

WordCount(w) == CountIn(AllWords(resp.clusteredArticles), w)

\* C14: the fallback over N articles yields at most 3 topics, one per
\* most-frequent title word of length > 2; each topic lists 1 to 5 indices,
\* all within [1, N] and each denoting an article of the clustering set
\* whose title contains the word, and has at most 2 citations.
C14_FallbackShape ==
  (Succeeded /\ usedFallback) =>
    LET N == resp.articlesUsedForClustering
        T == resp.trendingTopics
    IN /\ Len(T) <= 3
       /\ \A t \in 1..Len(T) :
            /\ T[t].topic \in LongWords
            /\ \A w \in LongWords :
                 WordCount(w) > WordCount(T[t].topic)
                   => \E u \in 1..Len(T) : T[u].topic = w
            /\ Len(T[t].articles) \in 1..5
            /\ \A i \in 1..Len(T[t].articles) :
                 /\ T[t].articles[i] \in 1..N
                 /\ \E k \in Denotes(T[t].articles[i]) :
                      Includes(ToLower(resp.clusteredArticles[k].title), T[t].topic)
            /\ Len(T[t].citations) <= 2

\* r1 >= r2 of two recency values.
RecencyGeq(r1, r2) ==
  \/ r1.k = "inf"
  \/ /\ r1.k = "num" /\ r2.k = "num"
     /\ r1.num * r1.den * r2.den * r2.den >= r2.num * r2.den * r1.den * r1.den

\* C15: of two articles of a scored list, publish times after the current
\* time included, the one with the smaller ageHours has a recency greater
\* than or equal to the other's.
C15_RecencyMonotone ==
  pc = "scored" =>
    \A i, j \in 1..Len(scored) :
      scored[i].ageHours <= scored[j].ageHours
        => RecencyGeq(scored[i].recency, scored[j].recency)

\* The request carries no query: no JSON body, a null body, an object
\* without query, or a query that is empty or blank.
QueryMissing ==
  \/ sBody.kind \in {"nojson", "null"}
  \/ sBody.query \in { JsNull, Str(<<>>), Str(<< " " >>) }

KeyAbsent == sEnv.news = "" \/ sEnv.openai = ""

\* C16: a summarize request without a query is answered 400, a request made
\* while a credential is absent is answered with an error status, and in
\* both cases no search fetch, page fetch or model call was issued.
C16_ChecksPrecedeCalls ==
  sPc = "done" =>
    /\ QueryMissing => (sResp.status = 400 /\ sCalls = <<>>)
    /\ KeyAbsent => (sResp.status >= 400 /\ sCalls = <<>>)

\* The texts of a response body.
RespTexts(r) == { r.error, r.details, r.summary }

\* C17: no response body holds the value of NEWSAPI_API_KEY or
\* OPENAI_API_KEY, and the same request under other keys that the services
\* accept as well, with the services answering as before, gets the same
\* response.
C17_KeysNotExposed ==
  sPc = "done" =>
    /\ RespTexts(sResp) \cap ({ sEnv.news, sEnv.openai } \ {""}) = {}
    /\ sRun = 2 => sResp = sPrev.resp

\* The identity key as the specification words it:
\* (title.trim() || url.trim()).toLowerCase().
TrimmedTitleOrUrl(item) ==
  ToLower(IF Trim(item.title.s) # <<>> THEN Trim(item.title.s) ELSE Trim(item.url.s))

\* C18: the summarize loop identifies an article by the lower-cased trimmed
\* title, or by the lower-cased trimmed url when the trimmed title is empty;
\* an article is dropped as keyless only when both are empty, so every
\* article with such a key has a retained article with the same key (an
\* article with a blank title and a url is retained under its url).
C18_KeyedByTitleOrUrl ==
  (dPhase = "deduped" /\ ~dOut.err) =>
    \A i \in 1..Len(dIn) :
      LET item == SumNormalizeOne(dIn[i]) IN
      TrimmedTitleOrUrl(item) # <<>> =>
        \E k \in 1..Len(dOut.out) :
          TrimmedTitleOrUrl(dOut.out[k]) = TrimmedTitleOrUrl(item)

\* The key a de-duplicator gives raw record r: the summarize loop's key of
\* the normalised article, normalize()'s key of the trimmed title and url.
KeyOfRaw(r) ==
  IF dPhase = "normalized"
  THEN NormalizeKey(Trim(Coalesce(r.title).s), Trim(Coalesce(r.url).s))
  ELSE DedupKey(SumNormalizeOne(r))

\* Retained article out[k] is the article made of raw record r.
MadeOf(out, k, r) ==
  IF dPhase = "normalized"
  THEN /\ out[k].index = k
       /\ out[k].title = Trim(Coalesce(r.title).s)
       /\ out[k].url = Trim(Coalesce(r.url).s)
  ELSE out[k] = SumNormalizeOne(r)

ArticleFields == { "title", "description", "url", "source", "publishedAt" }

\* C20: the normaliser returns one article per raw record, in the raw order,
\* filtering nothing, and every field of every article is a string, the empty
\* string where the raw field is absent or null (the summarize route's map
\* and the trending route's normalize()).
C20_NormalizerOneToOne ==
  /\ dPhase = "deduped" =>
       LET normalized == SumNormalize(dIn) IN
       /\ Len(normalized) = Len(dIn)
       /\ \A i \in 1..Len(dIn) : \A f \in ArticleFields :
            /\ normalized[i][f].k = "str"
            /\ dIn[i][f].k = "null" => normalized[i][f] = Str(<<>>)
  /\ (dPhase = "normalized" /\ ~dOut.err) =>
       /\ Len(dOut.out) = Len(dIn)
       /\ \A k \in 1..Len(dOut.out) : MadeOf(dOut.out, k, dIn[k])

\* list sub is a subsequence of list whole, in whole's order.
IsSubsequence(sub, whole) ==
  \E f \in [1..Len(sub) -> 1..Len(whole)] :
    /\ \A k \in 1..Len(sub) : sub[k] = whole[f[k]]
    /\ \A k, l \in 1..Len(sub) : k < l => f[k] < f[l]

\* C21: with diversity selection the selected articles keep the relative
\* order they have in the deduplicated list, also when articles are
\* backfilled after the one-per-source picks.
C21_SelectionKeepsOrder ==
  (dPhase = "selected" /\ dPrefer /\ ~dOut.err) => IsSubsequence(dSel, dOut.out)

\* The number of articles of the batch whose source is that of article a.
SharingSource(a, arts) ==
  Cardinality({ i \in 1..Len(arts) : arts[i].source = a.source })

\* The score the formula of the specification gives article a of the batch
\* arts whose age is not -12 hours, in units of 0.0001.
FormulaScore(a, arts) ==
  LET age == PubAgeHours(a.publishedAt)
      m == MaxOf({1} \cup { SharingSource(arts[i], arts) : i \in 1..Len(arts) })
      rest == 1500 * Min(KwHits(a), 6) + 100 * LengthQuality100(a)
                - 100 * Penalty100(a)
      d == (12 + age) * m
      n == 120000 * m + rest * d + 6000 * SharingSource(a, arts) * (12 + age)
  IN IF d > 0 THEN RoundDiv(n, d) ELSE RoundDiv(-n, -d)

ScoredFields == { "index", "title", "description", "url", "source", "publishedAt" }

\* C22: scoreArticles returns the articles of the batch in their order, each
\* with a finite score that is the rounded sum of recency, keyword boost,
\* cross-source share, length quality and penalty, also for an article whose
\* source is the empty string or whose publishedAt does not parse.
C22_ScoreIsFormula ==
  pc = "scored" =>
    \A sorted \in SortsByPublished(Normalize(mergedRaw).out) :
      LET out == ScoreArticles(sorted) IN
      /\ Len(out) = Len(sorted)
      /\ \A i \in 1..Len(sorted) :
           /\ \A f \in ScoredFields : out[i][f] = sorted[i][f]
           /\ out[i].score.k = "num"
           /\ out[i].score.v = FormulaScore(sorted[i], sorted)

\* C23: every score scoreArticles computes is a number within -0.1 and 2.5
\* (-1000 and 25000 in units of 0.0001), whatever the age, the keyword hits,
\* the source frequency, the description length and the title length.
C23_ScoreInRange ==
  pc = "scored" =>
    \A i \in 1..Len(scored) :
      /\ scored[i].score.k = "num"
      /\ scored[i].score.v >= -1000
      /\ scored[i].score.v <= 25000

\* The model's text holds one well-formed object and, around it, commentary
\* only: prose and blanks, no lone brace.
ObjectInCommentary(text) ==
  /\ Cardinality({ i \in 1..Len(text) : text[i] = "obj" }) = 1
  /\ \A i \in 1..Len(text) : text[i] \in {"obj", "prose", "ws"}

\* C24: when the model's text holds one well-formed cluster object with a
\* non-empty trendingTopics array, with commentary before and/or after it,
\* the object is extracted and parsed and the response carries its topics,
\* not the fallback's.
C24_ObjectExtracted ==
  (/\ pc = "done" /\ resp.status = 200
   /\ ObjectInCommentary(aiText)
   /\ aiPayload.arr /\ aiPayload.topics # <<>>)
    => (~usedFallback /\ resp.trendingTopics = aiPayload.topics)

\* C25: in the scoring variant the articles sent to clustering are the first
\* min(100, M) of the M scored (deduplicated) articles, no article has a
\* strictly higher score than one listed before it, included or left out,
\* and articlesUsedForClustering is that count and at most totalFetched.
C25_TopByScore ==
  (variant = "scored" /\ pc \in {"scored", "model", "done"}) =>
    LET M == Len(scored)
        N == Len(clusterTarget)
    IN /\ N = Min(ClusterCapScored, M)
       /\ clusterTarget = Reindex(Take(scored, N))
       /\ \A i \in 1..N : \A j \in (i + 1)..M : ~ScoreAbove(scored[j], scored[i])
       /\ (pc = "done" /\ resp.status = 200) =>
            /\ resp.articlesUsedForClustering = N
            /\ N <= resp.totalFetched

\* The planned results of the fetches, concatenated in the order of the
\* (sortBy, page) keys.
RECURSIVE PlannedFlat(_)
PlannedFlat(fs) == IF fs = <<>> THEN <<>> ELSE Head(fs).plan.list \o PlannedFlat(Tail(fs))

PlanRejects(f) == f.plan.st \in {"neterr", "badbody"}

\* The fetches left the fan-out: the merge was made or the request ended.
FanoutOver == pc \in {"model", "done"}

Settled(f) == f.st # "pending"

\* The request came to the fan-out: it is there, or at the model, or it
\* ended after it.
FanoutReached ==
  \/ pc \in {"fetching", "model"}
  \/ pc = "done" /\ (fetches # <<>> \/ aiFailed \/ resp.status = 200)

\* The fetches issued are one per (sortBy, page), at most ten, and twice the
\* pages when the request came to the fan-out with a number of pages; a
\* request that ended before issued none.
OncePerKey ==
    /\ Len(fetches) <= 10
    /\ (FanoutReached /\ ~pages.nan) => Len(fetches) = 2 * pages.n
    /\ ~FanoutReached => fetches = <<>>
    /\ \A i, j \in 1..Len(fetches) :
         (fetches[i].sortBy = fetches[j].sortBy /\ fetches[i].page = fetches[j].page)
           => i = j

\* A step issues no fetch again and changes no settled fetch; the model is
\* called from the fan-out only, with every fetch settled, and not again.
NoRetryStep ==
  /\ pc # "start" =>
       /\ Len(fetches') = Len(fetches)
       /\ \A i \in 1..Len(fetches) :
            /\ fetches'[i].sortBy = fetches[i].sortBy
            /\ fetches'[i].page = fetches[i].page
            /\ Settled(fetches[i]) => fetches'[i] = fetches[i]
  /\ (pc' = "model" /\ pc # "model") =>
       /\ pc = "fetching"
       /\ \A i \in 1..Len(fetches) : Settled(fetches[i])
  /\ pc = "model" => pc' \in {"model", "done"}
  /\ pc = "done" => pc' = "done"

\* C27: in a trending request every (sortBy, page) fetch is issued exactly
\* once, twice the pages and at most ten in all; the model is called at most
\* once and only after all fetches have settled; nothing is retried.
C27_FetchOnceModelOnce == []OncePerKey /\ [][NoRetryStep]_vars

\* C27 witness: both fetches of a one-page request settled and the model
\* answered.
C27_Witness ==
  /\ pc = "done"
  /\ resp.status = 200
  /\ aiText # <<>>
  /\ Len(fetches) = 2
  /\ \A i \in 1..Len(fetches) : fetches[i].st = "ok" /\ fetches[i].list # <<>>

\* C28: in the scoring variant every article line of the prompt carries the
\* score scoreArticles computed for the article; no line is tagged 'N/A'.
C28_PromptCarriesScore ==
  (variant = "scored" /\ pc \in {"model", "done"}) =>
    \A i \in 1..Len(prompt) : prompt[i].hasScore

\* The entries of the model's answer whose index is the integer i and whose
\* field f is a string.
SupplyingItems(items, i, f) ==
  { k \in 1..Len(items) :
      /\ ~items[k].nul
      /\ items[k].index = IntIdx(i)
      /\ items[k][f].k = "str" }

\* What the model's answer supplies for field f of entry i: the trimmed
\* string of the last such entry, or nothing.
Supplied(items, i, f) ==
  IF SupplyingItems(items, i, f) = {} THEN <<>>
  ELSE Trim(items[CHOOSE k \in SupplyingItems(items, i, f) :
                    \A l \in SupplyingItems(items, i, f) : l <= k][f].s)

\* C29: the success response of the summarize route has one entry per
\* selected article, in selection order, each with three summaryBullets;
\* the bullets of entry i are those the model's entries with index i supply
\* (the last one counting) where they are non-empty and the article's own
\* otherwise, whatever other entries the model returned.
C29_BulletsPerArticle ==
  (sPc = "done" /\ sResp.status = 200 /\ sArticles # <<>>) =>
    LET items == sHist[Len(sHist)].list IN
    /\ Len(sResp.articles) = Len(sArticles)
    /\ \A i \in 1..Len(sArticles) :
         /\ sResp.articles[i].art = sArticles[i].art
         /\ Len(sResp.articles[i].bullets) = 3
         /\ sResp.articles[i].bullets =
              SummaryBullets(sArticles[i].art,
                [message |-> Supplied(items, i, "message"),
                 support |-> Supplied(items, i, "support"),
                 citation |-> Supplied(items, i, "citation")])

\* The positions in sCalls of the calls made to a service.
CallsTo(svc) == { i \in 1..Len(sCalls) : sCalls[i].to = svc }

\* C30: in a summarize request the model is called at most once, after the
\* search API answered 2xx and an article was selected, and after the page
\* fetches; a non-2xx search answer ends the request with 502 and no
\* selected article with the empty response, both without a page fetch or a
\* model call; at most three pages are fetched, and the request whose model
\* answered succeeds whatever the page fetches gave.
C30_ModelAfterSearch ==
  /\ Cardinality(CallsTo("model")) <= 1
  /\ Cardinality(CallsTo("page")) <= 3
  /\ \A m \in CallsTo("model") :
       /\ sHist[1].st \in {"ok", "noarray"}
       /\ sArticles # <<>>
       /\ \A c \in CallsTo("search") \cup CallsTo("page") : c < m
  /\ (sPc = "done" /\ Len(sHist) >= 1 /\ sHist[1].st = "status") =>
       (sResp.status = 502 /\ CallsTo("page") = {} /\ CallsTo("model") = {})
  /\ (sPc = "done" /\ Len(sHist) >= 1 /\ sHist[1].st \in {"ok", "noarray"}
        /\ sArticles = <<>> /\ sResp.status = 200) =>
       (/\ sResp = [SumNoResp EXCEPT !.status = 200, !.summary = "none"]
        /\ CallsTo("page") = {} /\ CallsTo("model") = {})
  /\ (sPc = "done" /\ sHist # <<>> /\ sHist[Len(sHist)].st \in {"empty", "json"}) =>
       sResp.status = 200

\* C30 witness: four articles were selected, three pages were fetched and
\* one of the fetches failed, the model was called once and the request
\* succeeded.
C30_Witness ==
  /\ sPc = "done"
  /\ sResp.status = 200
  /\ Len(sArticles) = 4
  /\ Cardinality(CallsTo("page")) = 3
  /\ Cardinality(CallsTo("model")) = 1
  /\ \E i \in 1..3 : sArticles[i].text = "none"
====
